---- MODULE Spec2Model ----
(***************************************************************************)
(* The macOS disk-image bundler, tooling/bundler/src/bundle/macos/dmg.rs:  *)
(* bundle_project as a state machine over a filesystem.  A run walks the   *)
(* statements of bundle_project one filesystem or process call at a time;  *)
(* every call that returns a Result may fail, and `?` ends the run.        *)
(*                                                                         *)
(* Paths are std::path::PathBuf values, modelled as their sequence of      *)
(* components (PathBuf compares by components); "/" is the RootDir         *)
(* component.  Names (binary, version, architecture) are strings without   *)
(* a separator, so a file name is one component.  format! is string        *)
(* concatenation.                                                          *)
(***************************************************************************)
EXTENDS Integers, Sequences, FiniteSets, TLC

VARIABLES
  fs,        \* the filesystem: path -> "dir" or the data of a file
  settings,  \* settings[r]: the Settings run r was called with
  bundles,   \* bundles[r]: the package types of the Bundle slice run r was called with
  env,       \* the environment variable CI in the process of each run ("unset" when absent)
  pc,        \* pc[r]: the statement of bundle_project run r is at
  icns,      \* icns[r]: icns_icon_path, what create_icns_file returned to run r
  result,    \* result[r]: what bundle_project returned to the caller of run r
  log,       \* log[r]: the calls run r has made, in order, each with its outcome
  touched    \* touched[r]: the paths run r has read, written or deleted

vars == <<fs, settings, bundles, env, pc, icns, result, log, touched>>

(* ---------------------------------------------------------------- bounds *)

\* the longest Bundle slice a run is called with
MaxBundles == 1

Runs == {1, 2}

\* Option<T>: None is the empty sequence, Some(x) the sequence of x alone
None == <<>>
Some(x) == <<x>>

(* ------------------------------------------------------------------ paths *)

RootDir == "/"

\* Path::join: an absolute argument replaces the path, a relative one is appended
join(base, rel) ==
  IF rel # <<>> /\ Head(rel) = RootDir THEN rel ELSE base \o rel

\* Path::display: the components separated by "/"
RECURSIVE display(_)
display(p) ==
  IF p = <<>> THEN ""
  ELSE IF Len(p) = 1 THEN Head(p)
  ELSE IF Head(p) = RootDir THEN RootDir \o display(Tail(p))
  ELSE Head(p) \o "/" \o display(Tail(p))

IsPrefix(p, q) == Len(p) <= Len(q) /\ SubSeq(q, 1, Len(p)) = p

Prefixes(p) == { SubSeq(p, 1, n) : n \in 1..Len(p) }

parent(p) == SubSeq(p, 1, Len(p) - 1)

\* the architecture, were "x86_64" given no alias
arch_alias_x86_64_unchanged(arch) == arch

\* match settings.binary_arch() { "x86_64" => "x64", other => other }
arch_alias(arch) == IF arch = "x86_64" THEN "x64" ELSE arch

package_base_name(s) ==
  s.binary \o "_" \o s.version \o "_" \o arch_alias(s.arch)

dmg_name(s) == package_base_name(s) \o ".dmg"

\* the output directory, were it the bundle directory itself
output_path_bundle(s) == join(s.out_dir, <<"bundle">>)
output_path(s) == join(s.out_dir, <<"bundle", "dmg">>)

dmg_path(s) == join(output_path(s), <<dmg_name(s)>>)

product_name(s) == s.binary

bundle_file_name(s) == product_name(s) \o ".app"

bundle_dir(s) == join(s.out_dir, <<"bundle", "macos">>)

\* the staging directory, were it put in the system's temporary directory
temp_dir_in_tmp(s) == <<RootDir, "tmp", "temp">>
temp_dir(s) == join(output_path(s), <<"temp">>)

support_dir(s) == join(temp_dir(s), <<"support">>)

\* where hdiutil, run in bundle_dir with the relative output name, writes the image
intermediate_path(s) == join(bundle_dir(s), <<dmg_name(s)>>)

(* ------------------------------------------------------------- filesystem *)

Dir == [kind |-> "dir"]

exists(f, p) == p \in DOMAIN f

is_dir(f, p) == exists(f, p) /\ f[p] = Dir

is_file(f, p) == exists(f, p) /\ f[p] # Dir

\* fs::remove_dir_all: the directory and everything below it
remove_dir_all(f, p) ==
  [q \in { x \in DOMAIN f : ~IsPrefix(p, x) } |-> f[q]]

\* fs::create_dir_all: the directory and every missing ancestor
create_dir_all_ok(f, p) == \A q \in Prefixes(p) : exists(f, q) => f[q] = Dir
create_dir_all(f, p) ==
  [q \in DOMAIN f \cup Prefixes(p) |-> IF q \in DOMAIN f THEN f[q] ELSE Dir]

\* fs::write: create or truncate the file, whose directory must exist
write_ok(f, p) == is_dir(f, parent(p)) /\ ~is_dir(f, p)
write(f, p, data) ==
  [q \in DOMAIN f \cup {p} |-> IF q = p THEN data ELSE f[q]]

\* common::copy_dir: a deep copy of the tree at `from` to `to`
rebase(x, from, to) == to \o SubSeq(x, Len(from) + 1, Len(x))
copy_dir_ok(f, from, to) == is_dir(f, from) /\ create_dir_all_ok(f, parent(to))
copy_dir(f, from, to) ==
  LET src == { x \in DOMAIN f : IsPrefix(from, x) }
      new == { rebase(x, from, to) : x \in src }
      g   == create_dir_all(f, parent(to))
  IN  [q \in DOMAIN g \cup new |->
         IF q \in new
         THEN f[CHOOSE x \in src : rebase(x, from, to) = q]
         ELSE g[q]]

\* fs::copy: the contents of one file to another, created or truncated
copy_ok(f, from, to) == is_file(f, from) /\ write_ok(f, to)
copy(f, from, to) == write(f, to, f[from])

\* fs::rename of a file: the file leaves `from` and replaces whatever file is at `to`
rename_ok(f, from, to) ==
  is_file(f, from) /\ is_dir(f, parent(to)) /\ ~is_dir(f, to)
\* a move that leaves the file at `from` as well
rename_keeps_source(f, from, to) ==
  [q \in DOMAIN f \cup {to} |-> IF q = to THEN f[from] ELSE f[q]]
rename(f, from, to) ==
  [q \in (DOMAIN f \ {from}) \cup {to} |-> IF q = to THEN f[from] ELSE f[q]]

(* --------------------------------------------------------------- contents *)

\* include_str!("templates/dmg/eula-resources-template.xml")
EulaTemplate == [kind |-> "eula-template"]

\* a file of an application bundle, built by the run `by` (0: before any run)
AppFile(by) == [kind |-> "app", by |-> by]

\* an icon resource generated for the run `by`
IconFile(by) == [kind |-> "icns", by |-> by]

\* a disk image compiled by the hdiutil process of run `by` from the tree `tree`
Image(by, tree) == [kind |-> "dmg", by |-> by, tree |-> tree, signed |-> FALSE]

\* what is below a directory: the relative paths and, for files, what they hold
tree_of(f, d) ==
  { <<SubSeq(x, Len(d) + 1, Len(x)), f[x].kind>> :
      x \in { y \in DOMAIN f : IsPrefix(d, y) /\ y # d } }

(* ----------------------------------------------------------------- inputs *)

Binaries == {"app", "tool"}
Versions == {"1.0.0", "2.0.0"}
Archs == {"x86_64", "aarch64", "x64"}
OutDirs == {<<RootDir, "out">>, <<RootDir, "alt">>}
Licenses == {None, Some("LICENSE")}
Identities == {None, Some("Developer ID")}
PackageTypes == {"MacOsBundle", "Deb"}
CIValues == {"unset", "true"}

\* crate::Settings, as far as bundle_project reads it
SettingsSet ==
  [binary : Binaries, version : Versions, arch : Archs, out_dir : OutDirs,
   license : Licenses, signing_identity : Identities]

\* the Bundle slices, by the package type of each element
BundleLists == UNION { [1..n -> PackageTypes] : n \in 0..MaxBundles }

\* the application bundle of a product, as app::bundle_project leaves it
app_path(s) == join(bundle_dir(s), <<bundle_file_name(s)>>)
app_tree(f, s, by) ==
  LET g == create_dir_all(f, app_path(s))
  IN  write(g, join(app_path(s), <<"Info.plist">>), AppFile(by))

\* the filesystem before any run: each output root, and the application bundles
\* of the runs in `pre`, built earlier
RECURSIVE with_apps(_, _, _)
with_apps(f, ss, pre) ==
  IF pre = {} THEN f
  ELSE LET r == CHOOSE x \in pre : TRUE
       IN  with_apps(app_tree(f, ss[r], 0), ss, pre \ {r})

RECURSIVE with_dirs(_, _)
with_dirs(f, ds) ==
  IF ds = {} THEN f
  ELSE LET d == CHOOSE x \in ds : TRUE
       IN  with_dirs(create_dir_all(f, d), ds \ {d})

EmptyFs == [q \in {} |-> Dir]

initial_fs(ss, pre) == with_apps(with_dirs(EmptyFs, OutDirs), ss, pre)

(* ---------------------------------------------------------------- results *)

Pending == [tag |-> "Pending"]
Ok(paths) == [tag |-> "Ok", paths |-> paths]
\* an anyhow::Error: the chain of messages, the outermost context first
Err(chain) == [tag |-> "Err", chain |-> chain]

IoError == "io::Error"

\* Result::context / with_context: the message is put in front of the chain
context(msg, chain) == <<msg>> \o chain

Entry(step, ok, args) == [step |-> step, ok |-> ok, args |-> args]

Terminal == {"DONE", "FAILED"}

did(r, step) == \E i \in 1..Len(log[r]) : log[r][i].step = step
did_ok(r, step) == \E i \in 1..Len(log[r]) : log[r][i].step = step /\ log[r][i].ok

(* -------------------------------------------------------------- the steps *)

\* a step of run r that succeeded: on to the statement `next`
Goto(r, step, args, next, f, paths) ==
  /\ pc' = [pc EXCEPT ![r] = next]
  /\ log' = [log EXCEPT ![r] = Append(@, Entry(step, TRUE, args))]
  /\ fs' = f
  /\ touched' = [touched EXCEPT ![r] = @ \cup paths]
  /\ UNCHANGED <<settings, bundles, env, icns, result>>

\* `?` on an Err: bundle_project returns the error
Fail(r, step, args, chain, f, paths) ==
  /\ pc' = [pc EXCEPT ![r] = "FAILED"]
  /\ log' = [log EXCEPT ![r] = Append(@, Entry(step, FALSE, args))]
  /\ result' = [result EXCEPT ![r] = Err(chain)]
  /\ fs' = f
  /\ touched' = [touched EXCEPT ![r] = @ \cup paths]
  /\ UNCHANGED <<settings, bundles, env, icns>>

\* the caller calls bundle_project while other calls may be in progress
Call(r) ==
  /\ pc[r] = "START"
  /\ pc' = [pc EXCEPT ![r] = "ensure_prerequisite"]
  /\ UNCHANGED <<fs, settings, bundles, env, icns, result, log, touched>>

\* the caller calls bundle_project again once the call before has returned
CallAfter(r) ==
  /\ pc[r] = "START"
  /\ \A q \in Runs : q < r => pc[q] \in Terminal
  /\ pc' = [pc EXCEPT ![r] = "ensure_prerequisite"]
  /\ UNCHANGED <<fs, settings, bundles, env, icns, result, log, touched>>

\* the test, were the count compared with 1
needs_app_bundle_one(bs) ==
  Cardinality({ i \in 1..Len(bs) : bs[i] = "MacOsBundle" }) = 1

\* bundles.iter().filter(|bundle| bundle.package_type == MacOsBundle).count() == 0
needs_app_bundle(bs) ==
  Cardinality({ i \in 1..Len(bs) : bs[i] = "MacOsBundle" }) = 0

\* generate the .app bundle if needed
EnsurePrerequisite(r) ==
  /\ pc[r] = "ensure_prerequisite"
  /\ LET s == settings[r] IN
     IF needs_app_bundle(bundles[r])
     THEN \E ok \in BOOLEAN :
            IF ok
            THEN Goto(r, "ensure_prerequisite", <<"app::bundle_project">>,
                      "plan_paths", app_tree(fs, s, r), {app_path(s)})
            ELSE Fail(r, "ensure_prerequisite", <<"app::bundle_project">>,
                      <<"app::bundle_project error">>, fs, {app_path(s)})
     ELSE Goto(r, "ensure_prerequisite", <<>>, "plan_paths", fs, {})

\* get the target path: the names and paths are computed, nothing is touched
PlanPaths(r) ==
  /\ pc[r] = "plan_paths"
  /\ Goto(r, "plan_paths", <<display(dmg_path(settings[r]))>>,
          "clean_old_output", fs, {})

\* the step, were the old output directory left in place
CleanOldOutput_skipped(r) ==
  /\ pc[r] = "clean_old_output"
  /\ Goto(r, "clean_old_output", <<>>, "stage_tree", fs, {output_path(settings[r])})

\* if output_path.exists() { fs::remove_dir_all(&output_path) }
CleanOldOutput(r) ==
  /\ pc[r] = "clean_old_output"
  /\ LET s == settings[r]
         out == output_path(s)
     IN  IF exists(fs, out)
         THEN \E ok \in BOOLEAN :
                IF ok /\ is_dir(fs, out)
                THEN Goto(r, "clean_old_output", <<"remove_dir_all">>,
                          "stage_tree", remove_dir_all(fs, out), {out})
                ELSE Fail(r, "clean_old_output", <<"remove_dir_all">>,
                          context("Failed to remove old " \o dmg_name(s), <<IoError>>),
                          fs, {out})
         ELSE Goto(r, "clean_old_output", <<>>, "stage_tree", fs, {out})

\* fs::create_dir_all(&temp_dir)
StageTree(r) ==
  /\ pc[r] = "stage_tree"
  /\ LET tmp == temp_dir(settings[r]) IN
     \E ok \in BOOLEAN :
       IF ok /\ create_dir_all_ok(fs, tmp)
       THEN Goto(r, "stage_tree", <<>>, "stage_support",
                 create_dir_all(fs, tmp), {tmp})
       ELSE Fail(r, "stage_tree", <<>>,
                 context("Failed to create temporary directory at \""
                           \o display(tmp) \o "\"", <<IoError>>),
                 fs, {tmp})

\* fs::create_dir_all(&support_dir)
StageSupport(r) ==
  /\ pc[r] = "stage_support"
  /\ LET sup == support_dir(settings[r]) IN
     \E ok \in BOOLEAN :
       IF ok /\ create_dir_all_ok(fs, sup)
       THEN Goto(r, "stage_support", <<>>, "copy_app_bundle",
                 create_dir_all(fs, sup), {sup})
       ELSE Fail(r, "stage_support", <<>>,
                 context("Failed to create support directory at \""
                           \o display(sup) \o "\"", <<IoError>>),
                 fs, {sup})

\* the copy, were its Result dropped instead of returned with `?`
CopyAppBundle_unchecked(r) ==
  /\ pc[r] = "copy_app_bundle"
  /\ LET s == settings[r]
         from == app_path(s)
         to == join(temp_dir(s), <<bundle_file_name(s)>>)
     IN  \E ok \in BOOLEAN :
           IF ok /\ copy_dir_ok(fs, from, to)
           THEN Goto(r, "copy_app_bundle", <<>>, "write_support_resources",
                     copy_dir(fs, from, to), {from, to})
           ELSE /\ pc' = [pc EXCEPT ![r] = "write_support_resources"]
                /\ log' = [log EXCEPT ![r] =
                             Append(@, Entry("copy_app_bundle", FALSE, <<>>))]
                /\ touched' = [touched EXCEPT ![r] = @ \cup {from, to}]
                /\ UNCHANGED <<fs, settings, bundles, env, icns, result>>

\* copy_dir(&bundle_dir.join(&bundle_file_name), &temp_dir.join(&bundle_file_name))
CopyAppBundle(r) ==
  /\ pc[r] = "copy_app_bundle"
  /\ LET s == settings[r]
         from == app_path(s)
         to == join(temp_dir(s), <<bundle_file_name(s)>>)
     IN  \E ok \in BOOLEAN :
           IF ok /\ copy_dir_ok(fs, from, to)
           THEN Goto(r, "copy_app_bundle", <<>>, "write_support_resources",
                     copy_dir(fs, from, to), {from, to})
           ELSE Fail(r, "copy_app_bundle", <<>>,
                     context("Failed to copy .app to temp folder to create DMG",
                             <<IoError>>),
                     fs, {from, to})

\* write(support_dir.join("eula-resources-template.xml"), include_str!(..))?
WriteSupportResources(r) ==
  /\ pc[r] = "write_support_resources"
  /\ LET file == join(support_dir(settings[r]), <<"eula-resources-template.xml">>) IN
     \E ok \in BOOLEAN :
       IF ok /\ write_ok(fs, file)
       THEN Goto(r, "write_support_resources", <<>>, "synthesize_icon",
                 write(fs, file, EulaTemplate), {file})
       ELSE Fail(r, "write_support_resources", <<>>, <<IoError>>, fs, {file})

\* where icon::create_icns_file may leave the resource it generates
icon_locations(s) ==
  { join(temp_dir(s), <<product_name(s) \o ".icns">>),
    join(s.out_dir, <<product_name(s) \o ".icns">>) }

\* create_icns_file(&temp_dir, settings)?: an error, no icon, or the path of the
\* generated resource
SynthesizeIcon(r) ==
  /\ pc[r] = "synthesize_icon"
  /\ LET s == settings[r] IN
     \/ /\ Fail(r, "synthesize_icon", <<>>, <<"create_icns_file error">>, fs, {})
     \/ /\ pc' = [pc EXCEPT ![r] = "invoke_compiler"]
        /\ log' = [log EXCEPT ![r] = Append(@, Entry("synthesize_icon", TRUE, None))]
        /\ icns' = [icns EXCEPT ![r] = None]
        /\ UNCHANGED <<fs, settings, bundles, env, result, touched>>
     \/ \E at \in icon_locations(s) :
          /\ write_ok(fs, at)
          /\ pc' = [pc EXCEPT ![r] = "copy_volume_icon"]
          /\ log' = [log EXCEPT ![r] =
                       Append(@, Entry("synthesize_icon", TRUE, Some(display(at))))]
          /\ icns' = [icns EXCEPT ![r] = Some(at)]
          /\ fs' = write(fs, at, IconFile(r))
          /\ touched' = [touched EXCEPT ![r] = @ \cup {at}]
          /\ UNCHANGED <<settings, bundles, env, result>>

\* if let Some(icon) = &icns_icon_path { fs::copy(icon, temp_dir.join(".VolumeIcon.icns")) }
CopyVolumeIcon(r) ==
  /\ pc[r] = "copy_volume_icon"
  /\ icns[r] # None
  /\ LET icon == icns[r][1]
         to == join(temp_dir(settings[r]), <<".VolumeIcon.icns">>)
     IN  \E ok \in BOOLEAN :
           IF ok /\ copy_ok(fs, icon, to)
           THEN Goto(r, "copy_volume_icon", <<>>, "invoke_compiler",
                     copy(fs, icon, to), {icon, to})
           ELSE Fail(r, "copy_volume_icon", <<>>,
                     context("Failed to create the DMG volume icon", <<IoError>>),
                     fs, {icon, to})

\* the command line, were the disabled "--eula" argument passed on for a license
hdiutil_args_eula(s) ==
  <<"create", dmg_name(s), "-volname", product_name(s), "-fs", "HFS+",
    "-srcfolder", display(temp_dir(s))>>
    \o (IF s.license # None THEN <<"--eula", s.license[1]>> ELSE <<>>)

\* the command line of the hdiutil process
hdiutil_args(s) ==
  <<"create", dmg_name(s), "-volname", product_name(s), "-fs", "HFS+",
    "-srcfolder", display(temp_dir(s))>>
hdiutil_call(s) == <<display(bundle_dir(s)), hdiutil_args(s)>>

\* the license and the CI variable are read, and nothing is done with them;
\* then Command::new("hdiutil") .. .output(): the process is launched, or
\* launching it fails
InvokeCompiler(r) ==
  /\ pc[r] = "invoke_compiler"
  /\ LET s == settings[r]
         license_path_ref == ""
         skip_jenkins == env[r] = "true"
     IN  \E ok \in BOOLEAN :
           IF ok /\ is_dir(fs, bundle_dir(s))
           THEN /\ pc' = [pc EXCEPT ![r] = "compiler_running"]
                /\ touched' = [touched EXCEPT ![r] = @ \cup {bundle_dir(s)}]
                /\ UNCHANGED <<fs, settings, bundles, env, icns, result, log>>
           ELSE Fail(r, "invoke_compiler", hdiutil_call(s),
                     context("Error creating DMG for macOS", <<"io::Error">>),
                     fs, {bundle_dir(s)})

\* .output() returns once the process has exited: Ok(Output) whatever the exit
\* status, which is not looked at.  A process that exits with status 0 has written
\* the image of the source folder under the output name in its working directory.
CompilerExit(r) ==
  /\ pc[r] = "compiler_running"
  /\ LET s == settings[r] IN
     \E status \in {0, 1} :
       /\ status = 0 => is_dir(fs, temp_dir(s)) /\ write_ok(fs, intermediate_path(s))
       /\ pc' = [pc EXCEPT ![r] = "relocate"]
       /\ log' = [log EXCEPT ![r] =
                    Append(@, Entry("invoke_compiler", status = 0, hdiutil_call(s)))]
       /\ fs' = IF status = 0
                THEN write(fs, intermediate_path(s), Image(r, tree_of(fs, temp_dir(s))))
                ELSE fs
       /\ touched' = [touched EXCEPT ![r] = @ \cup {temp_dir(s), intermediate_path(s)}]
       /\ UNCHANGED <<settings, bundles, env, icns, result>>

\* the relocation, were the Result of fs::rename dropped instead of returned with `?`
Relocate_unchecked(r) ==
  /\ pc[r] = "relocate"
  /\ LET s == settings[r]
         from == join(bundle_dir(s), <<dmg_name(s)>>)
         to == dmg_path(s)
     IN  \E ok \in BOOLEAN :
           /\ pc' = [pc EXCEPT ![r] = "sign"]
           /\ log' = [log EXCEPT ![r] =
                        Append(@, Entry("relocate", ok /\ rename_ok(fs, from, to),
                                        <<display(from), display(to)>>))]
           /\ fs' = IF ok /\ rename_ok(fs, from, to) THEN rename(fs, from, to) ELSE fs
           /\ touched' = [touched EXCEPT ![r] = @ \cup {from, to}]
           /\ UNCHANGED <<settings, bundles, env, icns, result>>

\* the relocation, were a failed fs::rename answered by compiling again
Relocate_retry(r) ==
  /\ pc[r] = "relocate"
  /\ LET s == settings[r]
         from == join(bundle_dir(s), <<dmg_name(s)>>)
         to == dmg_path(s)
     IN  \E ok \in BOOLEAN :
           IF ok /\ rename_ok(fs, from, to)
           THEN Goto(r, "relocate", <<display(from), display(to)>>, "sign",
                     rename(fs, from, to), {from, to})
           ELSE /\ pc' = [pc EXCEPT ![r] = "invoke_compiler"]
                /\ UNCHANGED <<fs, settings, bundles, env, icns, result, log, touched>>

\* fs::rename(bundle_dir.join(dmg_name), dmg_path.clone())?
Relocate(r) ==
  /\ pc[r] = "relocate"
  /\ LET s == settings[r]
         from == join(bundle_dir(s), <<dmg_name(s)>>)
         to == dmg_path(s)
     IN  \E ok \in BOOLEAN :
           IF ok /\ rename_ok(fs, from, to)
           THEN Goto(r, "relocate", <<display(from), display(to)>>, "sign",
                     rename(fs, from, to), {from, to})
           ELSE Fail(r, "relocate", <<display(from), display(to)>>,
                     <<IoError>>, fs, {from, to})

\* what sign::sign does to the file it is given
signed(f, p) == [f EXCEPT ![p] = [@ EXCEPT !.signed = TRUE]]

\* the arguments, were the path hdiutil wrote to the one passed on
sign_call_intermediate(s) ==
  <<display(intermediate_path(s)), s.signing_identity[1], FALSE>>

\* the arguments of sign::sign(dmg_path.clone(), identity, settings, false)
sign_call(s) == <<display(dmg_path(s)), s.signing_identity[1], FALSE>>

\* the signing, were the signer's Result dropped instead of returned with `?`
Sign_unchecked(r) ==
  /\ pc[r] = "sign"
  /\ LET s == settings[r] IN
     /\ pc' = [pc EXCEPT ![r] = "DONE"]
     /\ result' = [result EXCEPT ![r] = Ok(<<dmg_path(s)>>)]
     /\ IF s.signing_identity # None
        THEN \E ok \in BOOLEAN :
               /\ log' = [log EXCEPT ![r] =
                            Append(@, Entry("sign", ok /\ is_file(fs, dmg_path(s)),
                                            sign_call(s)))]
               /\ fs' = IF ok /\ is_file(fs, dmg_path(s))
                        THEN signed(fs, dmg_path(s)) ELSE fs
               /\ touched' = [touched EXCEPT ![r] = @ \cup {dmg_path(s)}]
        ELSE UNCHANGED <<fs, log, touched>>
     /\ UNCHANGED <<settings, bundles, env, icns>>

\* Sign DMG if needed, then Ok(vec![dmg_path])
Sign(r) ==
  /\ pc[r] = "sign"
  /\ LET s == settings[r] IN
     IF s.signing_identity # None
     THEN \E ok \in BOOLEAN :
            IF ok /\ is_file(fs, dmg_path(s))
            THEN /\ pc' = [pc EXCEPT ![r] = "DONE"]
                 /\ log' = [log EXCEPT ![r] =
                              Append(@, Entry("sign", TRUE, sign_call(s)))]
                 /\ result' = [result EXCEPT ![r] = Ok(<<dmg_path(s)>>)]
                 /\ fs' = signed(fs, dmg_path(s))
                 /\ touched' = [touched EXCEPT ![r] = @ \cup {dmg_path(s)}]
                 /\ UNCHANGED <<settings, bundles, env, icns>>
            ELSE Fail(r, "sign", sign_call(s), <<"sign::sign error">>,
                      fs, {dmg_path(s)})
     ELSE /\ pc' = [pc EXCEPT ![r] = "DONE"]
          /\ result' = [result EXCEPT ![r] = Ok(<<dmg_path(s)>>)]
          /\ UNCHANGED <<fs, settings, bundles, env, icns, log, touched>>

(* ------------------------------------------------------ the specifications *)

Step(r) ==
  \/ EnsurePrerequisite(r)
  \/ PlanPaths(r)
  \/ CleanOldOutput(r)
  \/ StageTree(r)
  \/ StageSupport(r)
  \/ CopyAppBundle(r)
  \/ WriteSupportResources(r)
  \/ SynthesizeIcon(r)
  \/ CopyVolumeIcon(r)
  \/ InvokeCompiler(r)
  \/ CompilerExit(r)
  \/ Relocate(r)
  \/ Sign(r)

InitRuns(ss, bs, pre, ci) ==
  /\ settings = ss
  /\ bundles = bs
  /\ env = ci
  /\ fs = initial_fs(ss, pre)
  /\ pc = [r \in Runs |-> "START"]
  /\ icns = [r \in Runs |-> None]
  /\ result = [r \in Runs |-> Pending]
  /\ log = [r \in Runs |-> <<>>]
  /\ touched = [r \in Runs |-> {}]

\* One product, built and built again: the second call is made after the first
\* has returned, with the same Settings.
SeqSettings ==
  { s \in SettingsSet :
      /\ s.binary = "app" /\ s.version = "1.0.0" /\ s.arch = "x86_64"
      /\ s.out_dir = <<RootDir, "out">> }

Init ==
  \E s \in SeqSettings, bs \in [Runs -> BundleLists], pre \in SUBSET {1},
     ci \in CIValues :
    InitRuns([r \in Runs |-> s], bs, pre, [r \in Runs |-> ci])

Next == \E r \in Runs : CallAfter(r) \/ Step(r)

Spec == Init /\ [][Next]_vars

\* One call, with any Settings.
InitOne ==
  \E s \in SettingsSet, bs \in BundleLists, pre \in SUBSET {1}, ci \in CIValues :
    InitRuns([r \in Runs |-> s], [r \in Runs |-> bs], pre, [r \in Runs |-> ci])

NextOne == Call(1) \/ Step(1)

SpecOne == InitOne /\ [][NextOne]_vars

\* One call, in which every call the run makes returns: a step that can be taken
\* is taken in the end.
SpecOneLive == InitOne /\ [][NextOne]_vars /\ WF_vars(Step(1))

\* Two calls in progress at once, for two products: the binary names differ, the
\* output roots are the same or not.
ConcSettings ==
  { ss \in [Runs -> SettingsSet] :
      /\ ss[1].binary = "app" /\ ss[2].binary = "tool"
      /\ ss[1].out_dir = <<RootDir, "out">>
      /\ \A r \in Runs :
           /\ ss[r].version = "1.0.0" /\ ss[r].arch = "x86_64"
           /\ ss[r].license = None /\ ss[r].signing_identity = ss[1].signing_identity }

InitConc ==
  \E ss \in ConcSettings, bs \in BundleLists :
    InitRuns(ss, [r \in Runs |-> bs], Runs, [r \in Runs |-> "unset"])

NextConc == \E r \in Runs : Call(r) \/ Step(r)

SpecConc == InitConc /\ [][NextConc]_vars

\* The same call made twice, side by side, in two processes and two output roots:
\* the first without a license path and without CI, the second with any license
\* path and any value of CI, everything else the same.  The two do not share a
\* path, so they are run in step: the first moves, then the second catches up.
TwinSettings ==
  { ss \in [Runs -> SettingsSet] :
      /\ ss[1].out_dir = <<RootDir, "out">> /\ ss[2].out_dir = <<RootDir, "alt">>
      /\ ss[1].license = None
      /\ \A r \in Runs :
           /\ ss[r].binary = "app" /\ ss[r].version = "1.0.0" /\ ss[r].arch = "x86_64"
           /\ ss[r].signing_identity = ss[1].signing_identity }

PcOrder ==
  <<"START", "ensure_prerequisite", "plan_paths", "clean_old_output", "stage_tree",
    "stage_support", "copy_app_bundle", "write_support_resources", "synthesize_icon",
    "copy_volume_icon", "invoke_compiler", "compiler_running", "relocate", "sign",
    "DONE">>
Rank(p) ==
  IF p = "FAILED" THEN Len(PcOrder)
  ELSE CHOOSE i \in 1..Len(PcOrder) : PcOrder[i] = p

Turn(r) ==
  IF r = 1 THEN Rank(pc[1]) <= Rank(pc[2]) ELSE Rank(pc[r]) < Rank(pc[1])

InitTwin ==
  \E ss \in TwinSettings, bs \in BundleLists, pre \in {{}, Runs}, ci \in CIValues :
    InitRuns(ss, [r \in Runs |-> bs], pre,
             [r \in Runs |-> IF r = 1 THEN "unset" ELSE ci])

NextTwin == \E r \in Runs : Turn(r) /\ (Call(r) \/ Step(r))

SpecTwin == InitTwin /\ [][NextTwin]_vars

(* ------------------------------------------------------------- properties *)

\* the architecture part of a package base name, as the specification words it
ArchPart(s) == IF s.arch = "x86_64" THEN "x64" ELSE s.arch

\* {outputRoot}/bundle/dmg/{binary}_{version}_{arch'}.dmg
FinalPathString(s) ==
  display(s.out_dir) \o "/bundle/dmg/" \o s.binary \o "_" \o s.version \o "_"
    \o ArchPart(s) \o ".dmg"

\* {outputRoot}/bundle/macos/{binary}_{version}_{arch'}.dmg
IntermediatePathString(s) ==
  display(s.out_dir) \o "/bundle/macos/" \o s.binary \o "_" \o s.version \o "_"
    \o ArchPart(s) \o ".dmg"

Entries(r, step) == { i \in 1..Len(log[r]) : log[r][i].step = step }

\* the hdiutil process of run r exited with a non-zero status, or could not be launched
CompilerFailed(r) ==
  \E i \in Entries(r, "invoke_compiler") : ~log[r][i].ok

\* C1: if hdiutil exits with a non-zero status, or cannot be launched, the run is
\* FAILED, bundle_project returns an error, and neither the relocation nor the
\* signing is performed.
C1_CompilerFailureIsFatal ==
  \A r \in Runs :
    CompilerFailed(r) =>
      /\ pc[r] = "FAILED"
      /\ result[r].tag = "Err"
      /\ ~did(r, "relocate")
      /\ ~did(r, "sign")

\* C2: the final image path is {outputRoot}/bundle/dmg/{binary}_{version}_{arch'}.dmg
\* with arch' = "x64" for "x86_64" and the architecture itself otherwise, in every
\* state: whatever the bundle descriptors, the filesystem, the license and the
\* signing identity are.  It is the path that is announced once planned, and the
\* path that is returned.
C2_FinalPathIsFunctionOfSettings ==
  \A r \in Runs :
    /\ \A i \in Entries(r, "plan_paths") :
         /\ log[r][i].args[1] = FinalPathString(settings[r])
         /\ ( /\ settings[r].binary = "app" /\ settings[r].version = "1.0.0"
              /\ settings[r].arch = "x86_64" /\ settings[r].out_dir = <<RootDir, "out">> )
              => log[r][i].args[1] = "/out/bundle/dmg/app_1.0.0_x64.dmg"
         /\ ( /\ settings[r].binary = "app" /\ settings[r].version = "2.0.0"
              /\ settings[r].arch = "aarch64" /\ settings[r].out_dir = <<RootDir, "out">> )
              => log[r][i].args[1] = "/out/bundle/dmg/app_2.0.0_aarch64.dmg"
    /\ result[r].tag = "Ok" =>
         /\ Len(result[r].paths) = 1
         /\ display(result[r].paths[1]) = FinalPathString(settings[r])

C2_Witness ==
  \E r \in Runs :
    /\ result[r].tag = "Ok"
    /\ settings[r].arch = "x86_64"
    /\ settings[r].signing_identity # None
    /\ display(result[r].paths[1]) = "/out/bundle/dmg/app_1.0.0_x64.dmg"

\* the calls run r has made to app::bundle_project
BuilderCalls(r) ==
  { i \in Entries(r, "ensure_prerequisite") : log[r][i].args = <<"app::bundle_project">> }

HasMacOsBundle(r) == \E i \in 1..Len(bundles[r]) : bundles[r][i] = "MacOsBundle"

StagingSteps ==
  {"clean_old_output", "stage_tree", "stage_support", "copy_app_bundle",
   "write_support_resources", "synthesize_icon", "copy_volume_icon"}

\* C3: app::bundle_project is invoked exactly once when no descriptor is a
\* MacOsBundle and not at all when one is, and the invocation comes before every
\* staging action.
C3_PrerequisiteOnceBeforeStaging ==
  \A r \in Runs :
    /\ pc[r] \notin {"START", "ensure_prerequisite"} =>
         Cardinality(BuilderCalls(r)) = IF HasMacOsBundle(r) THEN 0 ELSE 1
    /\ pc[r] \in {"START", "ensure_prerequisite"} => BuilderCalls(r) = {}
    /\ \A i \in 1..Len(log[r]) :
         log[r][i].step \in StagingSteps =>
           /\ HasMacOsBundle(r) \/ \E j \in BuilderCalls(r) : j < i /\ log[r][j].ok
           /\ \A j \in BuilderCalls(r) : j < i
    /\ ( \E p \in touched[r] : IsPrefix(output_path(settings[r]), p) ) =>
         did_ok(r, "ensure_prerequisite")

C3_Witness ==
  \E r1, r2 \in Runs :
    /\ ~HasMacOsBundle(r1) /\ Cardinality(BuilderCalls(r1)) = 1 /\ did_ok(r1, "stage_tree")
    /\ HasMacOsBundle(r2) /\ BuilderCalls(r2) = {} /\ did_ok(r2, "stage_tree")

PreCompilerSteps == {"ensure_prerequisite"} \cup StagingSteps

CompilerInvoked(r) == did(r, "invoke_compiler") \/ pc[r] = "compiler_running"

\* C4: when a step before the compiler invocation fails, the run is FAILED and
\* hdiutil is never invoked in it.
C4_FailureBeforeCompilerAborts ==
  \A r \in Runs :
    ( \E i \in 1..Len(log[r]) : log[r][i].step \in PreCompilerSteps /\ ~log[r][i].ok ) =>
      /\ pc[r] = "FAILED"
      /\ result[r].tag = "Err"
      /\ ~CompilerInvoked(r)

\* the copy of an application bundle that is not there has failed
C4_Witness ==
  \E r \in Runs :
    /\ \E i \in Entries(r, "copy_app_bundle") : ~log[r][i].ok
    /\ ~exists(fs, app_path(settings[r]))
    /\ pc[r] = "FAILED"

\* C5: the signer is given the final image path, never the path hdiutil wrote to,
\* with deep = false, and only after the relocation of the same run succeeded.
C5_SignsFinalPathAfterRelocation ==
  \A r \in Runs :
    \A i \in Entries(r, "sign") :
      /\ log[r][i].args[1] = FinalPathString(settings[r])
      /\ log[r][i].args[1] # IntermediatePathString(settings[r])
      /\ log[r][i].args[3] = FALSE
      /\ \E j \in Entries(r, "relocate") : j < i /\ log[r][j].ok

C5_Witness ==
  \E r \in Runs :
    /\ did_ok(r, "sign")
    /\ is_file(fs, dmg_path(settings[r]))
    /\ fs[dmg_path(settings[r])].signed

\* C6: in a run that reaches the signing step, without an identity the signer is not
\* invoked and the run is DONE; with one it is invoked exactly once, and the run is
\* DONE exactly when it succeeds and FAILED with its error exactly when it fails.
C6_SignerOutcomeIsTheRunOutcome ==
  \A r \in Runs :
    did_ok(r, "relocate") =>
      /\ pc[r] = "sign" => Entries(r, "sign") = {}
      /\ pc[r] # "sign" =>
           IF settings[r].signing_identity = None
           THEN Entries(r, "sign") = {} /\ pc[r] = "DONE" /\ result[r].tag = "Ok"
           ELSE /\ Cardinality(Entries(r, "sign")) = 1
                /\ pc[r] = "DONE" <=> did_ok(r, "sign")
                /\ pc[r] = "FAILED" <=> ~did_ok(r, "sign")
                /\ pc[r] = "DONE" => result[r].tag = "Ok"
                /\ pc[r] = "FAILED" => result[r] = Err(<<"sign::sign error">>)

C6_Witness ==
  \E r1, r2 \in Runs :
    /\ settings[r1].signing_identity # None
    /\ pc[r1] = "FAILED" /\ did(r1, "sign") /\ ~did_ok(r1, "sign")
    /\ pc[r2] = "DONE" /\ did_ok(r2, "sign")

\* the image files at or below a directory
ImagesUnder(f, d) == { p \in DOMAIN f : IsPrefix(d, p) /\ f[p].kind = "dmg" }

\* C7: after two runs in sequence with the same Settings, the second DONE, there is
\* exactly one image in the output directory, at the final path, and it is the one
\* the second run built.
C7_SecondRunLeavesItsOwnImage ==
  ( /\ settings[1] = settings[2]
    /\ pc[1] \in Terminal
    /\ pc[2] = "DONE" ) =>
      LET s == settings[2] IN
      /\ ImagesUnder(fs, output_path(s)) = {dmg_path(s)}
      /\ fs[dmg_path(s)].by = 2

\* the paths a run owns: its staging directory and its final image
Overlap(p, q) == IsPrefix(p, q) \/ IsPrefix(q, p)
Owned(r) == {temp_dir(settings[r]), dmg_path(settings[r])}
OwnedFiles(f, r) ==
  LET ps == { p \in DOMAIN f : \E o \in Owned(r) : IsPrefix(o, p) }
  IN  [p \in ps |-> f[p]]

DifferentProducts(r1, r2) ==
  r1 # r2 /\ settings[r1].binary # settings[r2].binary

DifferentRoots(r1, r2) ==
  ~Overlap(settings[r1].out_dir, settings[r2].out_dir)

\* once run r1 has created its staging directory, a step that is not a step of r1
\* leaves what r1 owns as it is
LeavesAlone(r1) ==
  (did_ok(r1, "stage_tree") /\ pc'[r1] = pc[r1]) =>
    OwnedFiles(fs', r1) = OwnedFiles(fs, r1)

Canon(r) ==
  <<"ensure_prerequisite", "plan_paths", "clean_old_output", "stage_tree",
    "stage_support", "copy_app_bundle", "write_support_resources", "synthesize_icon">>
  \o (IF icns[r] # None THEN <<"copy_volume_icon">> ELSE <<>>)
  \o <<"invoke_compiler", "relocate">>
  \o (IF settings[r].signing_identity # None THEN <<"sign">> ELSE <<>>)

StepsTaken(r) == [i \in 1..Len(log[r]) |-> log[r][i].step]

\* the steps taken are the first steps of the sequence, in its order, and the run
\* is DONE exactly when the last of them has succeeded
InCanonOrder(r) ==
  /\ Len(log[r]) <= Len(Canon(r))
  /\ StepsTaken(r) = SubSeq(Canon(r), 1, Len(log[r]))
  /\ pc[r] = "DONE" <=>
       (pc[r] \in Terminal /\ StepsTaken(r) = Canon(r) /\ log[r][Len(log[r])].ok)

\* C9: the steps that execute are a prefix of the sequence, a step starts only after
\* every earlier step has completed successfully, and a run that completes the
\* sequence is DONE.
C9_StepsInOrderEachAfterSuccess ==
  \A r \in Runs :
    /\ InCanonOrder(r)
    /\ \A i \in 1..Len(log[r]) : i < Len(log[r]) => log[r][i].ok
    /\ pc[r] = "relocate" => did_ok(r, "invoke_compiler")

\* C10: an error returned by bundle_project carries a context put on it by the
\* pipeline, in front of the underlying error.
C10_EveryErrorHasContext ==
  \A r \in Runs :
    result[r].tag = "Err" => Len(result[r].chain) >= 2

\* C11: FAILED is terminal and nothing is retried: the builder, the compiler and the
\* signer are each invoked at most once in a run, and a step that fails is the last
\* thing the run does: no filesystem action and no process follows it.
C11_FirstFailureEndsTheRun ==
  \A r \in Runs :
    /\ Cardinality(BuilderCalls(r)) <= 1
    /\ Cardinality(Entries(r, "invoke_compiler")) <= 1
    /\ Cardinality(Entries(r, "sign")) <= 1
    /\ \A i \in 1..Len(log[r]) :
         ~log[r][i].ok => (i = Len(log[r]) /\ pc[r] = "FAILED")
    /\ pc[r] = "FAILED" =>
         (Len(log[r]) > 0 /\ ~log[r][Len(log[r])].ok /\ result[r].tag = "Err")

\* the step with which run r returns Ok
Returns(r) == pc[r] # "DONE" /\ pc'[r] = "DONE"

\* C12: when bundle_project returns success it returns exactly one path, the final
\* image path, and an image file is at that path at the moment of the return.
C12_SuccessReturnsTheImagePath ==
  /\ [](\A r \in Runs :
          /\ result[r].tag = "Ok" <=> pc[r] = "DONE"
          /\ result[r].tag = "Ok" =>
               /\ Len(result[r].paths) = 1
               /\ result[r].paths[1] = dmg_path(settings[r])
               /\ display(result[r].paths[1]) = FinalPathString(settings[r]))
  /\ [][\A r \in Runs :
          Returns(r) =>
            /\ result'[r].tag = "Ok"
            /\ is_file(fs', result'[r].paths[1])
            /\ fs'[result'[r].paths[1]].kind = "dmg"]_vars

C12_Witness ==
  \E r \in Runs :
    /\ pc[r] = "DONE"
    /\ result[r] = Ok(<<dmg_path(settings[r])>>)
    /\ is_file(fs, dmg_path(settings[r]))
    /\ settings[r].signing_identity = None

\* C13: when a run returns success, the image at the final path is the file this
\* run's compiler wrote from this run's staging tree, and never a file that was at
\* the intermediate location before this run's compiler was invoked.
C13_ReturnedImageIsThisRunsImage ==
  [][\A r \in Runs :
       Returns(r) =>
         LET s == settings[r] IN
         /\ is_file(fs', dmg_path(s))
         /\ fs'[dmg_path(s)].kind = "dmg"
         /\ fs'[dmg_path(s)].by = r
         /\ fs'[dmg_path(s)].tree = tree_of(fs', temp_dir(s))]_vars

\* the moment the compiler is invoked: from the call of Command::output() until
\* the process has exited
AtCompilerInvocation(r) == pc[r] \in {"invoke_compiler", "compiler_running"}

\* the files and directories of the staging directory, by their paths in it and
\* their contents: the copy of the application bundle, the support directory with
\* the template, the volume icon when the generator returned a path
StagedBundle(r) ==
  LET s == settings[r] IN
  { <<rebase(x, app_path(s), <<bundle_file_name(s)>>), fs[x]>> :
      x \in { y \in DOMAIN fs : IsPrefix(app_path(s), y) } }
StagedSupport ==
  { <<<<"support">>, Dir>>,
    <<<<"support", "eula-resources-template.xml">>, EulaTemplate>> }
StagedVolumeIcon(r) ==
  IF icns[r] # None THEN { <<<<".VolumeIcon.icns">>, IconFile(r)>> } ELSE {}
\* the resource the generator wrote, when it wrote it into the directory it was given
StagedGenerated(r) ==
  LET tmp == temp_dir(settings[r]) IN
  IF icns[r] # None /\ IsPrefix(tmp, icns[r][1])
  THEN { <<SubSeq(icns[r][1], Len(tmp) + 1, Len(icns[r][1])), IconFile(r)>> }
  ELSE {}
Staged(r) ==
  LET tmp == temp_dir(settings[r]) IN
  { <<SubSeq(x, Len(tmp) + 1, Len(x)), fs[x]>> :
      x \in { y \in DOMAIN fs : IsPrefix(tmp, y) /\ y # tmp } }
CreatedInThisRun(r) ==
  /\ did_ok(r, "stage_tree")
  /\ temp_dir(settings[r]) \in touched[r]
  /\ is_dir(fs, temp_dir(settings[r]))

BundleDirString(s) == display(s.out_dir) \o "/bundle/macos"
StagingDirString(s) == display(s.out_dir) \o "/bundle/dmg/temp"
OutputNameString(s) ==
  s.binary \o "_" \o s.version \o "_" \o ArchPart(s) \o ".dmg"

\* run r takes the relocation step, and it succeeds
Relocates(r) == pc[r] = "relocate" /\ pc'[r] = "sign"

\* C15: the compiler is invoked in {outputRoot}/bundle/macos with the output name
\* {base}.dmg, the product name as volume name and the staging directory as source
\* folder; the relocation moves exactly {working directory}/{output name} to the
\* final path, and after it has succeeded the image is at the final path and no
\* longer at the intermediate path.
C15_CompilerCallAndRelocation ==
  /\ [](\A r \in Runs :
          LET s == settings[r] IN
          /\ \A i \in Entries(r, "invoke_compiler") :
               LET cwd == log[r][i].args[1]
                   argv == log[r][i].args[2]
               IN  /\ cwd = BundleDirString(s)
                   /\ argv[1] = "create"
                   /\ argv[2] = OutputNameString(s)
                   /\ argv[3] = "-volname" /\ argv[4] = s.binary
                   /\ argv[7] = "-srcfolder" /\ argv[8] = StagingDirString(s)
                   /\ \A j \in Entries(r, "relocate") :
                        /\ i < j
                        /\ log[r][j].args[1] = cwd \o "/" \o argv[2]
                        /\ log[r][j].args[2] = FinalPathString(s)
          /\ did(r, "relocate") => did(r, "invoke_compiler"))
  /\ [][\A r \in Runs :
          Relocates(r) =>
            LET s == settings[r]
                from == intermediate_path(s)
                to == dmg_path(s)
            IN  /\ display(from) = BundleDirString(s) \o "/" \o OutputNameString(s)
                /\ is_file(fs, from)
                /\ is_file(fs', to) /\ fs'[to] = fs[from]
                /\ ~exists(fs', from)
                /\ \A q \in (DOMAIN fs \cup DOMAIN fs') \ {from, to} :
                     /\ q \in DOMAIN fs /\ q \in DOMAIN fs'
                     /\ fs'[q] = fs[q]]_vars

C15_Witness ==
  \E r \in Runs :
    /\ did_ok(r, "relocate")
    /\ settings[r].arch = "x86_64"
    /\ is_file(fs, dmg_path(settings[r]))
    /\ ~exists(fs, intermediate_path(settings[r]))

\* the input application bundle of run r: the files and directories at and below
\* {outputRoot}/bundle/macos/{product}.app
AppBundle(f, r) ==
  LET app == join(settings[r].out_dir,
                  <<"bundle", "macos", settings[r].binary \o ".app">>)
      ps == { p \in DOMAIN f : IsPrefix(app, p) }
  IN  [p \in ps |-> f[p]]

\* a step of the prerequisite builder, which is what produces the bundle
BuilderStep == \E r \in Runs : pc[r] = "ensure_prerequisite" /\ pc'[r] # pc[r]

\* run r takes the pre-clean step
PreCleans(r) == pc[r] = "clean_old_output" /\ pc'[r] # pc[r]

\* C16: no step of the pipeline after the prerequisite step deletes, renames or
\* writes anything inside the input application bundle, so that at the end of a
\* run, DONE or FAILED, the bundle is as the prerequisite step left it; and the
\* pre-clean step removes only {outputRoot}/bundle/dmg.
C16_InputBundleIsOnlyRead ==
  /\ [][~BuilderStep => \A r \in Runs : AppBundle(fs', r) = AppBundle(fs, r)]_vars
  /\ [][\A r \in Runs :
          PreCleans(r) =>
            LET old == join(settings[r].out_dir, <<"bundle", "dmg">>) IN
            /\ DOMAIN fs' \subseteq DOMAIN fs
            /\ \A q \in DOMAIN fs :
                 /\ q \notin DOMAIN fs' => IsPrefix(old, q)
                 /\ q \in DOMAIN fs' => fs'[q] = fs[q]]_vars

C16_Witness ==
  /\ pc[2] \in Terminal
  /\ \E i \in Entries(2, "clean_old_output") :
       log[2][i].ok /\ log[2][i].args = <<"remove_dir_all">>
  /\ did_ok(2, "copy_app_bundle")
  /\ is_file(fs, join(app_path(settings[2]), <<"Info.plist">>))

\* what the caller and the external steps of run r have done so far: whether the
\* call is made and has returned, whether each step succeeded, what the icon
\* generator returned and where it left it, and what became of the compiler process
IconOutcome(r) ==
  IF icns[r] = None THEN "none"
  ELSE IF IsPrefix(temp_dir(settings[r]), icns[r][1]) THEN "staging" ELSE "root"
\* a process that was launched has had its output path; one that exited has an entry
CompilerOutcome(r) ==
  IF pc[r] = "compiler_running" THEN "running"
  ELSE IF ~did(r, "invoke_compiler") THEN "none"
  ELSE IF did_ok(r, "invoke_compiler") THEN "exit 0"
  ELSE IF intermediate_path(settings[r]) \in touched[r] THEN "exit non-zero"
  ELSE "not launched"
Outcomes(r) ==
  <<pc[r] = "START", pc[r] \in Terminal, [i \in 1..Len(log[r]) |-> log[r][i].ok],
    IconOutcome(r), CompilerOutcome(r)>>

\* the next step of run r leads to position x
StepTo(r, x) == Step(r) /\ pc'[r] = x

\* the call of hdiutil for the Settings s, as strings: neither the license path nor
\* CI is in it
CompilerCallString(s) ==
  <<BundleDirString(s),
    <<"create", OutputNameString(s), "-volname", s.binary, "-fs", "HFS+",
      "-srcfolder", StagingDirString(s)>>>>

\* C17: the license path and the environment variable CI have no influence: of two
\* runs from the same filesystem state whose Settings differ in the license path
\* only and whose environments differ in CI only, with the same outcomes of the
\* external steps so far, both have executed the same steps and are at the same
\* position with the same outcome, both have the same files under their output
\* roots, the same next steps are possible for both, and the compiler is called
\* with arguments in which neither the license nor CI appears.
C17_LicenseAndCIHaveNoInfluence ==
  /\ \A r \in Runs : \A i \in Entries(r, "invoke_compiler") :
       log[r][i].args = CompilerCallString(settings[r])
  /\ Outcomes(1) = Outcomes(2) =>
       /\ pc[1] = pc[2]
       /\ StepsTaken(1) = StepsTaken(2)
       /\ result[1].tag = result[2].tag
       /\ result[1].tag = "Err" => Len(result[1].chain) = Len(result[2].chain)
       /\ tree_of(fs, settings[1].out_dir) = tree_of(fs, settings[2].out_dir)
       /\ \A x \in {"FAILED"} \cup { PcOrder[i] : i \in 1..Len(PcOrder) } :
            ENABLED StepTo(1, x) <=> ENABLED StepTo(2, x)

C17_Witness ==
  /\ settings[1].license = None /\ settings[2].license # None
  /\ env[1] = "unset" /\ env[2] = "true"
  /\ Outcomes(1) = Outcomes(2)
  /\ pc[1] = "DONE" /\ pc[2] = "DONE"
  /\ result[1].tag = "Ok"

\* C18: provided every call to an external collaborator and every filesystem
\* operation returns, a run that is started reaches DONE or FAILED; it never goes
\* back to an earlier step; and it goes on from the invocation of the compiler only
\* when the compiler process has exited.
C18_EveryRunEnds ==
  /\ \A r \in Runs : (pc[r] # "START") ~> (pc[r] \in Terminal)
  /\ [][\A r \in Runs :
          /\ pc'[r] # pc[r] => Rank(pc'[r]) > Rank(pc[r])
          /\ (pc[r] = "compiler_running" /\ pc'[r] # pc[r]) =>
               /\ pc'[r] = "relocate"
               /\ Len(log'[r]) = Len(log[r]) + 1
               /\ log'[r][Len(log'[r])].step = "invoke_compiler"
          /\ pc'[r] = "relocate" => pc[r] \in {"compiler_running", "relocate"}]_vars

C18_Witness ==
  \E r \in Runs :
    /\ pc[r] \in Terminal
    /\ did(r, "invoke_compiler")
    /\ did(r, "relocate")
    /\ ~log[r][Len(log[r])].ok

====
